---- MODULE Spec2Model ----
(***************************************************************************)
(* Configuration, favourites and preset persistence of the text-to-voice   *)
(* application (src/app.py): load_config / save_config, the configuration  *)
(* update of generar_audio, guardar_preset and cargar_preset, as a state   *)
(* machine over the content of the configuration file.                     *)
(***************************************************************************)
EXTENDS Integers, Sequences, FiniteSets, TLC

VARIABLES
    storage,  \* content of CONFIG_FILE
    gen,      \* the application and its generar_audio call in flight
    last,     \* what the last handler step did and returned
    origin,   \* content of CONFIG_FILE when the application started
    intro,    \* voices that generar_audio put in front of favorites, in order
    acked     \* preset keys guardar_preset has reported as saved

vars == <<storage, gen, last, origin, intro, acked>>

----------------------------------------------------------------------------
(* Python values                                                           *)

\* A Python number: its type and its value in tenths.
Float(t) == [type |-> "float", tenths |-> t]

PyInt(n) == [type |-> "int", tenths |-> 10 * n]

\* float(x)
float(x) == [type |-> "float", tenths |-> x.tenths]

\* A str is a sequence of characters where the code looks inside it (texto,
\* preset names), a TLA+ string where it is opaque (voices, formats, styles).
Whitespace == {" ", "\t"}

RECURSIVE lstrip(_)
lstrip(s) == IF s # <<>> /\ Head(s) \in Whitespace THEN lstrip(Tail(s)) ELSE s

RECURSIVE rstrip(_)
rstrip(s) ==
    IF s # <<>> /\ s[Len(s)] \in Whitespace
    THEN rstrip(SubSeq(s, 1, Len(s) - 1))
    ELSE s

\* str.strip()
strip(s) == rstrip(lstrip(s))

\* s[:n] of a list
Slice(s, n) == SubSeq(s, 1, IF Len(s) < n THEN Len(s) ELSE n)

Range(s) == {s[i] : i \in DOMAIN s}

EmptyDoc == [k \in {} |-> 0]

\* A dict with string keys, and "no value" (the call raised). A list, which
\* json.load returns for a JSON array, has the kind "list".
Dict(d) == [kind |-> "dict", doc |-> d]

NoValue == [kind |-> "none", doc |-> EmptyDoc]

IsDict(v) == v.kind = "dict"

\* k in d
Has(d, k) == k \in DOMAIN d

\* d.get(k, dflt)
Get(d, k, dflt) == IF k \in DOMAIN d THEN d[k] ELSE dflt

\* d[k] = v
Put(d, k, v) == [x \in DOMAIN d \cup {k} |-> IF x = k THEN v ELSE d[x]]

----------------------------------------------------------------------------
(* Configuration                                                           *)

AUDIO_FORMATS == {"mp3", "wav", "ogg"}

DEFAULT_FORMAT == "mp3"

Dalia == "es-MX-DaliaNeural"

Alvaro == "es-ES-AlvaroNeural"

KeyDefault == <<"d", "e", "f", "a", "u", "l", "t">>

AllKeys == {"favorites", "last_voice", "audio_format", "last_settings", "saved_presets"}

default_settings ==
    [speed |-> Float(10), volume |-> Float(10), pitch |-> Float(0),
     clarity |-> PyInt(0), style |-> "General"]

default_preset ==
    [speed |-> Float(10), volume |-> Float(10), pitch |-> Float(0),
     clarity |-> PyInt(0), style |-> "General", voice |-> Dalia,
     format |-> DEFAULT_FORMAT]

default_config ==
    [favorites |-> <<Dalia, Alvaro>>,
     last_voice |-> Dalia,
     audio_format |-> DEFAULT_FORMAT,
     last_settings |-> default_settings,
     saved_presets |-> (KeyDefault :> default_preset)]

\* The content of CONFIG_FILE: no file, text that is not JSON, bytes that are
\* not UTF-8, or JSON text (an object or an array).
File(kind) == [kind |-> kind, doc |-> EmptyDoc]

\* The keys of last_settings and of a preset whose values are numbers.
NumberKeys == {"speed", "volume", "pitch", "clarity"}

\* dump_number writing every number without a fraction, as "{:.0f}" does.
dump_number_rounded(x) == [fraction |-> FALSE, tenths |-> 10 * ((x.tenths + 5) \div 10)]

\* A number as JSON text: a float is written with a fraction part ("1.0"),
\* an int without one ("0").
dump_number(x) == [fraction |-> x.type = "float", tenths |-> x.tenths]

\* A JSON number read back: a float if it has a fraction part, else an int.
load_number(n) == IF n.fraction THEN Float(n.tenths) ELSE PyInt(n.tenths \div 10)

\* last_settings or a preset as JSON text
dump_entry(e) == [k \in DOMAIN e |-> IF k \in NumberKeys THEN dump_number(e[k]) ELSE e[k]]

load_entry(e) == [k \in DOMAIN e |-> IF k \in NumberKeys THEN load_number(e[k]) ELSE e[k]]

\* The document as JSON text: strings and lists of strings as they are.
dump_doc(d) ==
    [k \in DOMAIN d |->
        CASE k = "last_settings" -> dump_entry(d[k])
          [] k = "saved_presets" -> [n \in DOMAIN d[k] |-> dump_entry(d[k][n])]
          [] OTHER -> d[k]]

load_doc(d) ==
    [k \in DOMAIN d |->
        CASE k = "last_settings" -> load_entry(d[k])
          [] k = "saved_presets" -> [n \in DOMAIN d[k] |-> load_entry(d[k][n])]
          [] OTHER -> d[k]]

\* json.dump(config, f, indent=2, ensure_ascii=False)
json_dump(v) ==
    [kind |-> IF v.kind = "dict" THEN "object" ELSE "array", doc |-> dump_doc(v.doc)]

\* json.load(f) of JSON text
json_load(s) ==
    [kind |-> IF s.kind = "object" THEN "dict" ELSE "list", doc |-> load_doc(s.doc)]

save_config(config) == json_dump(config)

\* load_config() without the save_config of its except branch.
load_config_no_save(s) ==
    CASE s.kind \in {"missing", "badjson"} ->
            [raised |-> FALSE, ret |-> Dict(default_config), storage |-> s]
      [] s.kind = "badutf8" ->
            [raised |-> TRUE, ret |-> NoValue, storage |-> s]
      [] OTHER ->
            [raised |-> FALSE, ret |-> json_load(s), storage |-> s]

\* load_config(): whether it raised, what it returned, and the file afterwards.
load_config(s) ==
    CASE s.kind \in {"missing", "badjson"} ->
            [raised |-> FALSE, ret |-> Dict(default_config),
             storage |-> save_config(Dict(default_config))]
      [] s.kind = "badutf8" ->
            [raised |-> TRUE, ret |-> NoValue, storage |-> s]
      [] OTHER ->
            [raised |-> FALSE, ret |-> json_load(s), storage |-> s]

----------------------------------------------------------------------------
(* Handlers, as functions of the file content and the widget values       *)

\* "last_settings" as generar_audio writes it
settings_of(in) ==
    [speed |-> float(in.velocidad), volume |-> float(in.intensidad),
     pitch |-> float(in.tono), clarity |-> in.clarity, style |-> in.estilo]

\* A preset as guardar_preset writes it
preset_of(in) ==
    [voice |-> in.voz, speed |-> float(in.velocidad),
     volume |-> float(in.intensidad), pitch |-> float(in.tono),
     clarity |-> in.clarity, style |-> in.estilo, format |-> in.formato]

\* record_use keeping config["favorites"][:5] behind the new voice.
record_use_keep5(doc, voz) ==
    LET favorites ==
            IF voz \notin Range(doc.favorites)
            THEN <<voz>> \o Slice(doc.favorites, 5)
            ELSE doc.favorites
    IN  Put(Put(doc, "favorites", favorites), "last_voice", voz)

\* record_use moving a voice that is already a favourite to the front.
record_use_mru(doc, voz) ==
    LET favorites ==
            <<voz>> \o Slice(SelectSeq(doc.favorites, LAMBDA v : v # voz), 4)
    IN  Put(Put(doc, "favorites", favorites), "last_voice", voz)

\* record_use putting the new voice behind the favourites.
record_use_append(doc, voz) ==
    LET favorites ==
            IF voz \notin Range(doc.favorites)
            THEN Slice(doc.favorites, 4) \o <<voz>>
            ELSE doc.favorites
    IN  Put(Put(doc, "favorites", favorites), "last_voice", voz)

\* record_use as (config["favorites"] + [voz])[:5].
record_use_keep_first(doc, voz) ==
    LET favorites ==
            IF voz \notin Range(doc.favorites)
            THEN Slice(doc.favorites \o <<voz>>, 5)
            ELSE doc.favorites
    IN  Put(Put(doc, "favorites", favorites), "last_voice", voz)

\* The favourites update of generar_audio: favorites and last_voice.
record_use(doc, voz) ==
    LET favorites ==
            IF voz \notin Range(doc.favorites)
            THEN <<voz>> \o Slice(doc.favorites, 4)
            ELSE doc.favorites
    IN  Put(Put(doc, "favorites", favorites), "last_voice", voz)

\* "Update configuration" of generar_audio, up to save_config.
update_config(doc, in) ==
    Put(Put(record_use(doc, in.voz), "audio_format", in.formato),
        "last_settings", settings_of(in))

\* actualizar_favoritos_html() without a config: it loads one and reads it.
actualizar_favoritos_html(s) ==
    LET r == load_config(s)
    IN  [raised |-> r.raised \/ ~IsDict(r.ret), storage |-> r.storage]

\* actualizar_presets_html() without a config: it loads one and reads it.
actualizar_presets_html(s) ==
    LET r == load_config(s)
    IN  [raised |-> r.raised \/ ~IsDict(r.ret), storage |-> r.storage]

\* The except branch of generar_audio: the error tuple, built from two loads.
error_return(s) ==
    LET f == actualizar_favoritos_html(s)
        p == actualizar_presets_html(f.storage)
    IN  IF f.raised THEN [status |-> "raised", storage |-> f.storage]
        ELSE IF p.raised THEN [status |-> "raised", storage |-> p.storage]
        ELSE [status |-> "error", storage |-> p.storage]

\* finish_audio loading the config again after the await and updating that.
finish_audio_reloading(s, config, in) ==
    LET r == load_config(s)
    IN  IF ~r.raised /\ IsDict(r.ret) /\ Has(r.ret.doc, "favorites")
        THEN [status |-> "ok",
              storage |-> save_config(Dict(update_config(r.ret.doc, in)))]
        ELSE error_return(r.storage)

\* generar_audio after the awaited synthesis returned: what the handler
\* returns and the file afterwards. config is what it loaded before the await.
finish_audio(s, config, in) ==
    IF IsDict(config) /\ Has(config.doc, "favorites")
    THEN [status |-> "ok",
          storage |-> save_config(Dict(update_config(config.doc, in)))]
    ELSE error_return(s)

\* name_missing without the strip.
name_missing_unstripped(nombre) == nombre = <<>>

\* not nombre or nombre.strip() == ""
name_missing(nombre) == nombre = <<>> \/ strip(nombre) = <<>>

\* preset_key without the strip.
preset_key_raw(nombre) == nombre

\* The key guardar_preset stores under.
preset_key(nombre) == strip(nombre)

guardar_preset(s, nombre, in) ==
    IF name_missing(nombre)
    THEN LET p == actualizar_presets_html(s)
         IN  [status |-> IF p.raised THEN "raised" ELSE "invalid_name",
              storage |-> p.storage, key |-> <<>>, shown |-> <<>>]
    ELSE LET r == load_config(s)
         IN  IF r.raised \/ ~IsDict(r.ret)
             THEN [status |-> "raised", storage |-> r.storage,
                   key |-> <<>>, shown |-> <<>>]
             ELSE LET config == IF Has(r.ret.doc, "saved_presets")
                                THEN r.ret.doc
                                ELSE Put(r.ret.doc, "saved_presets", EmptyDoc)
                      presets == Put(config.saved_presets, preset_key(nombre),
                                     preset_of(in))
                  IN  [status |-> "ok",
                       storage |-> save_config(
                           Dict(Put(config, "saved_presets", presets))),
                       key |-> preset_key(nombre),
                       shown |-> nombre]

\* cargar_preset creating "saved_presets" as guardar_preset does, and saving.
cargar_preset_saving(s, preset_name) ==
    LET r == load_config(s)
    IN  IF r.raised \/ ~IsDict(r.ret)
        THEN [status |-> "raised", storage |-> r.storage, ret |-> NoValue]
        ELSE LET presets == Get(r.ret.doc, "saved_presets", EmptyDoc)
                 saved == save_config(Dict(Put(r.ret.doc, "saved_presets", presets)))
             IN  IF preset_name \notin DOMAIN presets
                 THEN [status |-> "not_found", storage |-> saved, ret |-> NoValue]
                 ELSE [status |-> "ok", storage |-> saved,
                       ret |-> Dict(presets[preset_name])]

cargar_preset(s, preset_name) ==
    LET r == load_config(s)
    IN  IF r.raised \/ ~IsDict(r.ret)
        THEN [status |-> "raised", storage |-> r.storage, ret |-> NoValue]
        ELSE LET presets == Get(r.ret.doc, "saved_presets", EmptyDoc)
             IN  IF preset_name \notin DOMAIN presets
                 THEN [status |-> "not_found", storage |-> r.storage,
                       ret |-> NoValue]
                 ELSE LET preset == presets[preset_name]
                      IN  [status |-> "ok", storage |-> r.storage,
                           ret |-> Dict(
                               [voice |-> Get(preset, "voice", ""),
                                speed |-> Get(preset, "speed", Float(10)),
                                volume |-> Get(preset, "volume", Float(10)),
                                pitch |-> Get(preset, "pitch", Float(0)),
                                clarity |-> Get(preset, "clarity", PyInt(0)),
                                style |-> Get(preset, "style", "General"),
                                format |-> Get(preset, "format", "mp3")])]

\* generar_audio up to the awaited synthesis: whether it gets there, the
\* config it loaded, and the file afterwards.
start_audio(s, texto) ==
    IF strip(texto) = <<>>
    THEN [go |-> FALSE, config |-> NoValue, storage |-> s]
    ELSE LET r == load_config(s)
         IN  [go |-> ~r.raised, config |-> r.ret, storage |-> r.storage]

\* generar_audio with no other handler running during the synthesis, which
\* succeeds (synth) or raises.
generar_audio(s, texto, in, synth) ==
    LET a == start_audio(s, texto)
    IN  IF a.go /\ synth
        THEN finish_audio(a.storage, a.config, in)
        ELSE error_return(a.storage)

----------------------------------------------------------------------------
(* Inputs                                                                  *)

Salome == "es-CO-SalomeNeural"

NewVoices ==
    {Salome, "es-AR-ElenaNeural", "es-CL-CatalinaNeural", "es-PE-CamilaNeural",
     "es-US-PalomaNeural", "es-VE-PaolaNeural"}

Voices == {Dalia, Alvaro} \cup NewVoices

\* The widget values a handler receives.
Widgets(voz, velocidad, formato) ==
    [voz |-> voz, velocidad |-> velocidad, intensidad |-> Float(10),
     tono |-> Float(0), clarity |-> PyInt(0), estilo |-> "General",
     formato |-> formato]

UIInputs == {Widgets(Dalia, PyInt(1), "mp3"), Widgets(Salome, Float(15), "wav")}

FavInputs == {Widgets(v, PyInt(1), "mp3") : v \in Voices}

Texts == {<<>>, <<" ">>, <<"a">>}

\* Calls of generar_audio: every voice with a synthesis that succeeds, and
\* one call each with a blank text and with a synthesis that raises.
FavCalls ==
    {[texto |-> <<"a">>, in |-> in, synth |-> TRUE] : in \in FavInputs}
        \cup {[texto |-> <<" ">>, in |-> Widgets(Dalia, PyInt(1), "mp3"), synth |-> TRUE],
              [texto |-> <<"a">>, in |-> Widgets(Salome, PyInt(1), "mp3"), synth |-> FALSE]}

Names == {<<>>, <<" ", "\t">>, <<"a">>, <<" ", "a", "\t">>, <<"a", " ", "b">>}

PresetNames == Names \cup {KeyDefault}

\* CONFIG_FILE holding the JSON text of document d
Object(d) == json_dump(Dict(d))

Without(d, k) == [x \in DOMAIN d \ {k} |-> d[x]]

\* favorites edited by hand to more than five entries
LongFavorites ==
    <<Dalia, Alvaro, Salome, "es-AR-ElenaNeural", "es-CL-CatalinaNeural",
      "es-PE-CamilaNeural">>

FullFavorites == SubSeq(LongFavorites, 1, 5)

\* What CONFIG_FILE may hold when the application starts.
InitialFiles ==
    {File("missing"), File("badjson"), File("badutf8"), File("array"),
     Object(EmptyDoc),
     Object(Without(default_config, "saved_presets")),
     Object(default_config),
     Object(Put(default_config, "favorites", LongFavorites))}

InitialFavorites ==
    {File("missing"),
     Object(Put(default_config, "favorites", FullFavorites)),
     Object(Put(default_config, "favorites", LongFavorites))}

\* How many voices the model lets generar_audio put in front of favorites.
MaxIntro == 6

----------------------------------------------------------------------------
(* The state machine                                                       *)

NoInput == Widgets("", PyInt(1), "")

Result(op, status, ret) ==
    [op |-> op, status |-> status, ret |-> ret, voz |-> "",
     nombre |-> <<>>, key |-> <<>>, shown |-> <<>>]

\* What generar_audio returned; voz is the voice it recorded, if it did.
Done(status, voz) ==
    [Result("generar_audio", status, NoValue) EXCEPT
        !.voz = IF status = "ok" THEN voz ELSE ""]

Start(files) ==
    /\ storage \in files
    /\ origin = storage
    /\ gen = [pc |-> "boot", config |-> NoValue, in |-> NoInput]
    /\ last = Result("none", "ok", NoValue)
    /\ intro = <<>>
    /\ acked = {}

Init == Start(InitialFiles)

InitFavorites == Start(InitialFavorites)

Running == gen.pc \in {"idle", "awaiting"}

\* crear_interfaz: the first load_config of the run and the reads of it.
CrearInterfaz ==
    /\ gen.pc = "boot"
    /\ LET r == load_config(storage)
           ok == ~r.raised /\ IsDict(r.ret)
       IN  /\ storage' = r.storage
           /\ gen' = [gen EXCEPT !.pc = IF ok THEN "idle" ELSE "crashed"]
           /\ last' = Result("crear_interfaz", IF ok THEN "ok" ELSE "raised", r.ret)
    /\ UNCHANGED <<origin, intro, acked>>

\* update_preset_list: a load_config and a read of it.
UpdatePresetList ==
    /\ Running
    /\ LET r == load_config(storage)
           ok == ~r.raised /\ IsDict(r.ret)
       IN  /\ storage' = r.storage
           /\ last' = Result("update_preset_list", IF ok THEN "ok" ELSE "raised", r.ret)
    /\ UNCHANGED <<gen, origin, intro, acked>>

GuardarPreset(nombre, in) ==
    /\ Running
    /\ LET g == guardar_preset(storage, nombre, in)
       IN  /\ storage' = g.storage
           /\ last' = [Result("guardar_preset", g.status, NoValue) EXCEPT
                          !.voz = in.voz, !.nombre = nombre, !.key = g.key,
                          !.shown = g.shown]
           /\ acked' = IF g.status = "ok" THEN acked \cup {g.key} ELSE acked
    /\ UNCHANGED <<gen, origin, intro>>

CargarPreset(preset_name) ==
    /\ Running
    /\ LET c == cargar_preset(storage, preset_name)
       IN  /\ storage' = c.storage
           /\ last' = [Result("cargar_preset", c.status, c.ret) EXCEPT
                          !.nombre = preset_name]
    /\ UNCHANGED <<gen, origin, intro, acked>>

\* generar_audio up to "await communicator.save".
GenStart(texto, in) ==
    /\ gen.pc = "idle"
    /\ LET a == start_audio(storage, texto)
           e == error_return(a.storage)
       IN  IF a.go
           THEN /\ storage' = a.storage
                /\ gen' = [pc |-> "awaiting", config |-> a.config, in |-> in]
                /\ last' = Result("generar_audio", "awaiting", NoValue)
           ELSE /\ storage' = e.storage
                /\ gen' = gen
                /\ last' = Result("generar_audio", e.status, NoValue)
    /\ UNCHANGED <<origin, intro, acked>>

\* The synthesis returned: generar_audio updates the config it loaded and saves.
GenFinish ==
    /\ gen.pc = "awaiting"
    /\ LET f == finish_audio(storage, gen.config, gen.in)
       IN  /\ storage' = f.storage
           /\ last' = Done(f.status, gen.in.voz)
    /\ gen' = [pc |-> "idle", config |-> NoValue, in |-> NoInput]
    /\ UNCHANGED <<origin, intro, acked>>

\* GenFail for a generar_audio that updates and saves before it awaits.
GenFailAfterSave ==
    /\ gen.pc = "awaiting"
    /\ LET f == finish_audio(storage, gen.config, gen.in)
           e == error_return(f.storage)
       IN  /\ storage' = e.storage
           /\ last' = Result("generar_audio", e.status, NoValue)
    /\ gen' = [pc |-> "idle", config |-> NoValue, in |-> NoInput]
    /\ UNCHANGED <<origin, intro, acked>>

\* The synthesis raised: generar_audio returns its error tuple.
GenFail ==
    /\ gen.pc = "awaiting"
    /\ LET e == error_return(storage)
       IN  /\ storage' = e.storage
           /\ last' = Result("generar_audio", e.status, NoValue)
    /\ gen' = [pc |-> "idle", config |-> NoValue, in |-> NoInput]
    /\ UNCHANGED <<origin, intro, acked>>

Next ==
    \/ CrearInterfaz
    \/ UpdatePresetList
    \/ \E nombre \in Names, in \in UIInputs : GuardarPreset(nombre, in)
    \/ \E preset_name \in PresetNames : CargarPreset(preset_name)
    \/ \E texto \in Texts, in \in UIInputs : GenStart(texto, in)
    \/ GenFinish
    \/ GenFail

Spec == Init /\ [][Next]_vars

\* One whole generar_audio, with no other handler while it awaits.
GenerarAudio(texto, in, synth) ==
    /\ gen.pc = "idle"
    /\ LET g == generar_audio(storage, texto, in, synth)
           before == json_load(storage).doc
           fresh == g.status = "ok" /\ in.voz \notin Range(before.favorites)
       IN  /\ fresh => Len(intro) < MaxIntro
           /\ storage' = g.storage
           /\ last' = Done(g.status, in.voz)
           /\ intro' = IF fresh THEN Append(intro, in.voz) ELSE intro
    /\ UNCHANGED <<gen, origin, acked>>

NextFavorites ==
    \/ CrearInterfaz
    \/ \E call \in FavCalls : GenerarAudio(call.texto, call.in, call.synth)

SpecFavorites == InitFavorites /\ [][NextFavorites]_vars

----------------------------------------------------------------------------
(* Properties                                                              *)

Favorites(s) == s.doc.favorites

Presets(s) == Get(s.doc, "saved_presets", EmptyDoc)

NoDuplicates(f) == \A i, j \in DOMAIN f : f[i] = f[j] => i = j

FavOK(f) == Len(f) <= 5 /\ NoDuplicates(f)

FirstFive(f) == [i \in 1..(IF Len(f) < 5 THEN Len(f) ELSE 5) |-> f[i]]

\* The run started from the defaults, or from a document whose favorites
\* are unique and at most five.
OriginFavOK ==
    \/ origin.kind = "missing"
    \/ origin.kind = "object" /\ Has(origin.doc, "favorites")
          /\ FavOK(origin.doc.favorites)

Recorded == last.op = "generar_audio" /\ last.status = "ok"

\* C1: from the default document, or a document whose favorites are unique
\* and at most five, favorites stays unique and at most five entries long
\* after any sequence of generar_audio calls.
C1_FavoritesBounded ==
    (gen.pc = "idle" /\ OriginFavOK) => FavOK(Favorites(storage))

\* A state of C1: a successful generar_audio has filled favorites to five
\* entries by pushing new voices in front.
C1_Witness ==
    /\ OriginFavOK
    /\ Recorded
    /\ Len(intro) >= 4
    /\ Len(Favorites(storage)) = 5
    /\ last.voz = Head(Favorites(storage))

\* C2: a successful generar_audio sets last_voice to its voice, and when the
\* voice was already in favorites the favorites list is exactly what it was.
C2_PresentVoiceKeepsFavorites ==
    [][(last'.op = "generar_audio" /\ last'.status = "ok") =>
          /\ storage'.doc.last_voice = last'.voz
          /\ last'.voz \in Range(Favorites(storage)) =>
                 Favorites(storage') = Favorites(storage)]_vars

\* A state of C2: a voice of a six-entry, hand-edited favorites list was used,
\* it is not the first of the list, and the six entries are still there.
C2_Witness ==
    /\ Recorded
    /\ origin = Object(Put(default_config, "favorites", LongFavorites))
    /\ last.voz = Salome
    /\ storage.doc.last_voice = Salome
    /\ Favorites(storage) = LongFavorites

SixNewVoices ==
    /\ origin.kind = "missing"
    /\ Len(intro) = 6
    /\ Range(intro) \subseteq NewVoices
    /\ NoDuplicates(intro)

\* C3: a successful generar_audio with a voice absent from favorites leaves
\* that voice followed by the previous favorites, cut to the first five; and
\* six distinct new voices after the defaults leave the last five of them,
\* newest first.
C3_AbsentVoicePrepended ==
    /\ [][(last'.op = "generar_audio" /\ last'.status = "ok"
              /\ last'.voz \notin Range(Favorites(storage))) =>
             Favorites(storage') = FirstFive(<<last'.voz>> \o Favorites(storage))]_vars
    /\ [](SixNewVoices =>
             Favorites(storage) = <<intro[6], intro[5], intro[4], intro[3], intro[2]>>)

\* A state of C3: six distinct new voices were introduced after the defaults.
C3_Witness ==
    /\ SixNewVoices
    /\ Recorded
    /\ last.voz = intro[6]
    /\ Len(Favorites(storage)) = 5

LoadOps == {"crear_interfaz", "update_preset_list"}

C5_LoadedHasAllKeys ==
    (last.op \in LoadOps /\ last.ret.kind # "none"
        /\ origin.kind \in {"missing", "badjson", "object"}) =>
        (last.ret.kind = "dict" /\ AllKeys \subseteq DOMAIN last.ret.doc)

Blank(nombre) == \A i \in DOMAIN nombre : nombre[i] \in {" ", "\t"}

\* C6: guardar_preset with an empty or all-whitespace name returns the
\* invalid-name error and leaves every entry of saved_presets in the file as
\* it was.
C6_BlankNameRejected ==
    /\ []((last.op = "guardar_preset" /\ Blank(last.nombre)) =>
             last.status = "invalid_name")
    /\ [][(last'.op = "guardar_preset" /\ Blank(last'.nombre)) =>
             (storage'.kind = storage.kind /\ Presets(storage') = Presets(storage))]_vars

\* A state of C6: a whitespace-only name was refused while the file holds a
\* preset saved earlier.
C6_Witness ==
    /\ last.op = "guardar_preset"
    /\ last.nombre = <<" ", "\t">>
    /\ last.status = "invalid_name"
    /\ <<"a">> \in DOMAIN Presets(storage)

Trimmed(k) == k # <<>> /\ ~Blank(<<k[1]>>) /\ ~Blank(<<k[Len(k)]>>)

\* k is nombre without its leading and trailing whitespace.
IsTrimOf(k, nombre) ==
    /\ Trimmed(k)
    /\ \E i \in 0..Len(nombre) :
          /\ i + Len(k) <= Len(nombre)
          /\ k = SubSeq(nombre, i + 1, i + Len(k))
          /\ Blank(SubSeq(nombre, 1, i))
          /\ Blank(SubSeq(nombre, i + Len(k) + 1, Len(nombre)))

\* C7: guardar_preset with a name that is not blank stores the entry under
\* the trimmed name, replacing what was there and leaving the other entries,
\* so every key of saved_presets is a non-empty string without leading or
\* trailing whitespace.
C7_StoredUnderTrimmedName ==
    /\ [](storage.kind = "object" => \A k \in DOMAIN Presets(storage) : Trimmed(k))
    /\ [][(last'.op = "guardar_preset" /\ ~Blank(last'.nombre)) =>
             /\ last'.status = "ok"
             /\ \E k \in DOMAIN Presets(storage') :
                   /\ IsTrimOf(k, last'.nombre)
                   /\ Presets(storage')[k].voice = last'.voz
                   /\ DOMAIN Presets(storage') = DOMAIN Presets(storage) \cup {k}
                   /\ \A j \in DOMAIN Presets(storage) \ {k} :
                         Presets(storage')[j] = Presets(storage)[j]]_vars

\* A state of C7: a name with whitespace around it was saved under its
\* trimmed form, next to the default entry and another saved entry.
C7_Witness ==
    /\ last.op = "guardar_preset"
    /\ last.status = "ok"
    /\ last.nombre = <<" ", "a", "\t">>
    /\ last.voz = Salome
    /\ DOMAIN Presets(storage) = {KeyDefault, <<"a">>, <<"a", " ", "b">>}
    /\ Presets(storage)[<<"a">>].voice = Salome

\* C8: the success result of guardar_preset carries the trimmed name, the
\* key the entry was stored under.
C8_ResultCarriesTrimmedName ==
    (last.op = "guardar_preset" /\ last.status = "ok") => last.shown = last.key

\* C9: cargar_preset with a name that is no key of saved_presets returns the
\* not-found result, and cargar_preset leaves the file as it was, whether
\* the name was found or not.
C9_CargarPresetReadOnly ==
    [][last'.op = "cargar_preset" =>
          /\ storage' = storage
          /\ last'.status =
                 IF last'.nombre \in DOMAIN Presets(storage) THEN "ok" ELSE "not_found"]_vars

\* A state of C9: a name that is no key was looked up in a file that has
\* no saved_presets at all.
C9_Witness ==
    /\ last.op = "cargar_preset"
    /\ last.status = "not_found"
    /\ last.nombre = <<"a">>
    /\ storage.kind = "object"
    /\ ~Has(storage.doc, "saved_presets")

\* C10: whatever the file holds, no operation ends in an unhandled failure.
C10_NoUnhandledFailure == last.status # "raised"

----------------------------------------------------------------------------
(* save_config then load_config, over documents that keep the data model  *)

\* Documents whose favorites are unique and at most five, whose preset keys
\* are trimmed and non-empty, and that have all five keys.
Documents ==
    {[favorites |-> f, last_voice |-> v, audio_format |-> a,
      last_settings |-> ls, saved_presets |-> p] :
        f \in {<<>>, <<Dalia, Alvaro>>, FullFavorites},
        v \in {Dalia, Salome},
        a \in AUDIO_FORMATS,
        ls \in {default_settings,
                settings_of(Widgets(Salome, Float(15), "wav")),
                [default_settings EXCEPT !.pitch = Float(-5), !.clarity = PyInt(-3)]},
        p \in {EmptyDoc,
               KeyDefault :> default_preset,
               (KeyDefault :> default_preset)
                   @@ (<<"a", " ", "b">> :> preset_of(Widgets(Salome, Float(15), "wav")))}}

InitRoundTrip ==
    /\ storage \in {File("missing"), Object(default_config)}
    /\ origin = storage
    /\ gen \in {[pc |-> "doc", config |-> Dict(d), in |-> NoInput] : d \in Documents}
    /\ last = Result("none", "ok", NoValue)
    /\ intro = <<>>
    /\ acked = {}

\* save_config(config) of the document in hand
SaveConfig ==
    /\ gen.pc = "doc"
    /\ storage' = save_config(gen.config)
    /\ gen' = [gen EXCEPT !.pc = "saved"]
    /\ last' = Result("save_config", "ok", NoValue)
    /\ UNCHANGED <<origin, intro, acked>>

\* load_config() after it
LoadConfig ==
    /\ gen.pc = "saved"
    /\ LET r == load_config(storage)
       IN  /\ storage' = r.storage
           /\ last' = Result("load_config", IF r.raised THEN "raised" ELSE "ok", r.ret)
    /\ gen' = [gen EXCEPT !.pc = "loaded"]
    /\ UNCHANGED <<origin, intro, acked>>

NextRoundTrip == SaveConfig \/ LoadConfig

SpecRoundTrip == InitRoundTrip /\ [][NextRoundTrip]_vars

\* C11: save_config of a document that keeps the data model, followed by
\* load_config, returns a document equal to it in every field.
C11_SaveLoadRoundTrip ==
    last.op = "load_config" => (last.status = "ok" /\ last.ret = gen.config)

\* A state of C11: a document with a negative float, a negative int and a
\* preset beside the default one was saved and loaded.
C11_Witness ==
    /\ last.op = "load_config"
    /\ gen.config.doc.last_settings.pitch = Float(-5)
    /\ gen.config.doc.last_settings.clarity = PyInt(-3)
    /\ <<"a", " ", "b">> \in DOMAIN gen.config.doc.saved_presets
    /\ origin.kind = "missing"

\* A successful generar_audio that ran its synthesis while other handlers ran.
Overlapped == gen.pc = "awaiting" /\ last'.op = "generar_audio" /\ last'.status = "ok"

\* C12: nothing merges overlapping load-mutate-save cycles. When generar_audio
\* saves after its synthesis, the file holds exactly the config it loaded before
\* the synthesis plus its own update, whatever was saved in between: the
\* presets are those it loaded, the voice and format are its own.
C12_LastWriterWins ==
    [][Overlapped =>
          /\ Presets(storage') = Presets(json_dump(gen.config))
          /\ storage'.doc.last_voice = gen.in.voz
          /\ storage'.doc.audio_format = gen.in.formato]_vars

\* A state of C12: guardar_preset reported a preset as saved, generar_audio
\* saved last, and the preset is not in the file.
C12_Witness ==
    /\ Recorded
    /\ \E key \in acked : key \notin DOMAIN Presets(storage)

\* A file holding a document with the five keys.
ValidFile(s) == s.kind = "object" /\ AllKeys \subseteq DOMAIN s.doc

\* A generar_audio that returned its error message: blank text, or the
\* synthesis raised.
Failed == last'.op = "generar_audio" /\ last'.status = "error"

\* C13: when generar_audio fails and the file holds a valid document, the
\* file, and so favorites, last_voice, audio_format, last_settings and
\* saved_presets, is left as it was.
C13_FailureKeepsConfig ==
    [][(Failed /\ ValidFile(storage)) => storage' = storage]_vars

\* A state of C13: generar_audio failed over a valid document that earlier
\* handlers had changed.
C13_Witness ==
    /\ last.op = "generar_audio"
    /\ last.status = "error"
    /\ ValidFile(storage)
    /\ storage.doc.last_voice = Salome
    /\ acked # {}

----------------------------------------------------------------------------
(* generar_audio and guardar_preset one after the other, from the defaults  *)

SeqVoices ==
    {Dalia, Alvaro, Salome, "es-AR-ElenaNeural", "es-CL-CatalinaNeural",
     "es-PE-CamilaNeural"}

\* Calls of generar_audio whose synthesis succeeds, one for each voice
SeqCalls ==
    {[texto |-> <<"a">>, in |-> Widgets(v, PyInt(1), "mp3"), synth |-> TRUE] :
        v \in SeqVoices}

InitSequential == Start({File("missing"), Object(default_config)})

NextSequential ==
    \/ CrearInterfaz
    \/ \E call \in SeqCalls : GenerarAudio(call.texto, call.in, call.synth)
    \/ \E in \in UIInputs : GuardarPreset(<<"a">>, in)

SpecSequential == InitSequential /\ [][NextSequential]_vars

\* C14: from the default document, after generar_audio and guardar_preset
\* calls that do not overlap, last_voice is one of favorites.
C14_LastVoiceIsFavorite ==
    storage.kind = "object" =>
        storage.doc.last_voice \in Range(Favorites(storage))

\* A state of C14: five voices went in front of the default favourites, which
\* pushed the default last_voice out, and a preset was saved last.
C14_Witness ==
    /\ Len(intro) >= 5
    /\ Dalia \notin Range(Favorites(storage))
    /\ Len(Favorites(storage)) = 5
    /\ last.op = "guardar_preset"
    /\ last.status = "ok"
    /\ <<"a">> \in DOMAIN Presets(storage)

====
